---- MODULE Spec2Model ----
(***************************************************************************)
(* Model of wordle_stats.py: the record extractor (parse_html_files), the  *)
(* two aggregators (calculate_statistics, calculate_head_to_head) and the  *)
(* rate computations of the text report (print_summary, __main__).         *)
(*                                                                         *)
(* Texts and timestamp attributes are sequences of one-character strings,  *)
(* so the regular expressions of the source are matched character by       *)
(* character.  An author label is a sequence of lexical tokens: a run of   *)
(* whitespace is the token " ", a word or an @handle is one token.         *)
(* An optional value (a div that may be missing, Python's None) is the     *)
(* empty sequence, a present value v is <<v>>.                             *)
(***************************************************************************)
EXTENDS Integers, Sequences, FiniteSets, TLC

VARIABLES
    docs,            \* the parsed export files, in sorted(glob) order
    fi,              \* position of the file loop (line 21)
    mi,              \* position of the message loop (line 30)
    current_player,  \* line 29/34: None or <<label>>
    results,         \* the record list (line 19), also the aggregators' input
    pc,              \* where the run is
    error,           \* the exception that ended the run, or "none"
    si,              \* position of the record loop of calculate_statistics
    stats,           \* player -> year -> bucket (line 77)
    puzzles,         \* year -> puzzle_num -> player -> attempts_val (line 110)
    h2h_stats,       \* year -> counters (line 127); keys exist once touched
    summary,         \* the rates print_summary computed
    h2h_report       \* the percentages __main__ computed

vars == <<docs, fi, mi, current_player, results, pc, error, si, stats,
          puzzles, h2h_stats, summary, h2h_report>>

(***************************************************************************)
(* Bounds.                                                                 *)
(***************************************************************************)
MaxBlocks == 2     \* message blocks per export file
MaxNumLen == 3     \* characters in the puzzle-number position of a text
MaxRecords == 3    \* records handed to the aggregators

None == <<>>
Some(v) == <<v>>

Digits == {"0", "1", "2", "3", "4", "5", "6", "7", "8", "9"}

DigitVal(c) ==
    CASE c = "0" -> 0 [] c = "1" -> 1 [] c = "2" -> 2 [] c = "3" -> 3
      [] c = "4" -> 4 [] c = "5" -> 5 [] c = "6" -> 6 [] c = "7" -> 7
      [] c = "8" -> 8 [] c = "9" -> 9

\* int("") at line 49, and datetime() of no calendar day at line 60
IntError == [raised |-> "ValueError: invalid literal for int()"]
DateError == [raised |-> "ValueError: date value out of range"]
ZeroDivisionError == [raised |-> "ZeroDivisionError"]
Raised(v) == "raised" \in DOMAIN v

(***************************************************************************)
(* int(s) of a string of ASCII digits: the empty string raises.            *)
(***************************************************************************)
RECURSIVE DigitsValue(_)
DigitsValue(s) ==
    IF s = <<>> THEN 0
    ELSE 10 * DigitsValue(SubSeq(s, 1, Len(s) - 1)) + DigitVal(s[Len(s)])

ParseInt(s) ==
    IF s = <<>> \/ \E i \in 1..Len(s) : s[i] \notin Digits
    THEN IntError
    ELSE [val |-> DigitsValue(s)]

(***************************************************************************)
(* Author label: get_text().strip(), then re.sub(r"\s+via\s+@\w+", "").    *)
(***************************************************************************)
SpaceTokens == {" "}
HandleTokens == {"@wordlebot"}

RECURSIVE LStrip(_)
LStrip(s) ==
    IF s # <<>> /\ s[1] \in SpaceTokens THEN LStrip(Tail(s)) ELSE s

RECURSIVE RStrip(_)
RStrip(s) ==
    IF s # <<>> /\ s[Len(s)] \in SpaceTokens
    THEN RStrip(SubSeq(s, 1, Len(s) - 1)) ELSE s

Strip(s) == RStrip(LStrip(s))

\* first position at or after j that holds no token/character of class
RECURSIVE RunEnd(_, _, _)
RunEnd(s, j, class) ==
    IF j <= Len(s) /\ s[j] \in class THEN RunEnd(s, j + 1, class) ELSE j

\* length of the match of \s+via\s+@\w+ that starts at i, or 0
ViaMatchLen(s, i) ==
    LET a == RunEnd(s, i, SpaceTokens)
        b == RunEnd(s, a + 1, SpaceTokens)
    IN  IF /\ a > i
           /\ a <= Len(s) /\ s[a] = "via"
           /\ b > a + 1
           /\ b <= Len(s) /\ s[b] \in HandleTokens
        THEN b + 1 - i
        ELSE 0

RECURSIVE RemoveVia(_)
RemoveVia(s) ==
    IF s = <<>> THEN <<>>
    ELSE LET n == ViaMatchLen(s, 1)
         IN  IF n > 0 THEN RemoveVia(SubSeq(s, n + 1, Len(s)))
             ELSE <<s[1]>> \o RemoveVia(Tail(s))

NormalizeAuthor(label) == RemoveVia(Strip(label))

(***************************************************************************)
(* re.search(r"Wordle ([\d,]+) ([X\d])/6", text).  The class [\d,] holds   *)
(* no space, so the greedy run can only end where the run itself ends.     *)
(***************************************************************************)
Keyword == <<"W", "o", "r", "d", "l", "e", " ">>
NumberClass == Digits \cup {","}
AttemptsClass == {"X"} \cup Digits

WordleMatchAt(text, i) ==
    LET k == Len(Keyword)
        j == RunEnd(text, i + k, NumberClass)
    IN  IF /\ i + k - 1 <= Len(text)
           /\ SubSeq(text, i, i + k - 1) = Keyword
           /\ j > i + k
           /\ j + 3 <= Len(text)
           /\ text[j] = " "
           /\ text[j + 1] \in AttemptsClass
           /\ text[j + 2] = "/"
           /\ text[j + 3] = "6"
        THEN Some([num |-> SubSeq(text, i + k, j - 1), att |-> text[j + 1]])
        ELSE None

RECURSIVE WordleSearchFrom(_, _)
WordleSearchFrom(text, i) ==
    IF i > Len(text) THEN None
    ELSE IF WordleMatchAt(text, i) # None THEN WordleMatchAt(text, i)
    ELSE WordleSearchFrom(text, i + 1)

WordleSearch(text) == WordleSearchFrom(text, 1)

StripCommas(s) == SelectSeq(s, LAMBDA c : c # ",")

(***************************************************************************)
(* re.match(r"(\d{2})\.(\d{2})\.(\d{4})", date_str) and datetime(y, m, d). *)
(***************************************************************************)
DateMatch(t) ==
    IF /\ Len(t) >= 10
       /\ \A i \in {1, 2, 4, 5, 7, 8, 9, 10} : t[i] \in Digits
       /\ t[3] = "." /\ t[6] = "."
    THEN Some([day |-> SubSeq(t, 1, 2), month |-> SubSeq(t, 4, 5),
               year |-> SubSeq(t, 7, 10)])
    ELSE None

IsLeap(y) == (y % 4 = 0 /\ y % 100 # 0) \/ y % 400 = 0

DaysInMonth(y, m) ==
    IF m = 2 THEN (IF IsLeap(y) THEN 29 ELSE 28)
    ELSE IF m \in {4, 6, 9, 11} THEN 30 ELSE 31

MakeDate(y, m, d) ==
    IF /\ y >= 1 /\ y <= 9999
       /\ m >= 1 /\ m <= 12
       /\ d >= 1 /\ d <= DaysInMonth(y, m)
    THEN [year |-> y, month |-> m, day |-> d]
    ELSE DateError

(***************************************************************************)
(* One iteration of the message loop (lines 30-70) on block msg with the   *)
(* author cp carried in: the author carried out, and what the iteration    *)
(* did: nothing, one record appended, or an exception.                     *)
(***************************************************************************)
\* variant: the label is read only after the text check of line 39
AuthorAfterNeedsText(cp, msg) ==
    IF msg.from_name # None /\ msg.text # None
    THEN Some(NormalizeAuthor(msg.from_name[1])) ELSE cp

AuthorAfter(cp, msg) ==
    IF msg.from_name # None THEN Some(NormalizeAuthor(msg.from_name[1])) ELSE cp

\* truth value of current_player: None and the empty string are false
Truthy(cp) == cp # None /\ cp[1] # <<>>

MessageOutcome(cp, msg) ==
    LET player == AuthorAfter(cp, msg)
        skip  == [kind |-> "skip"]
    IN  IF msg.text = None THEN skip
        ELSE LET m == WordleSearch(msg.text[1])
             IN  IF m = None \/ ~Truthy(player) THEN skip
                 ELSE LET num == ParseInt(StripCommas(m[1].num))
                      IN  IF Raised(num) THEN [kind |-> "raise", exc |-> num]
                          ELSE IF msg.title = None \/ msg.title[1] = <<>> THEN skip
                          ELSE LET dm == DateMatch(msg.title[1])
                               IN  IF dm = None THEN skip
                                   ELSE LET date == MakeDate(ParseInt(dm[1].year).val,
                                                             ParseInt(dm[1].month).val,
                                                             ParseInt(dm[1].day).val)
                                        IN  IF Raised(date)
                                            THEN [kind |-> "raise", exc |-> date]
                                            ELSE [kind |-> "append",
                                                  rec |-> [player |-> player[1],
                                                           puzzle_num |-> num.val,
                                                           attempts |-> m[1].att,
                                                           date |-> date,
                                                           year |-> date.year]]

(***************************************************************************)
(* parse_html_files (lines 17-72).                                         *)
(***************************************************************************)
AggregatesIdle ==
    /\ si = 0
    /\ stats = <<>>
    /\ puzzles = <<>>
    /\ h2h_stats = <<>>
    /\ summary = <<>>
    /\ h2h_report = <<>>

ParserIdle ==
    /\ docs = <<>>
    /\ fi = 0
    /\ mi = 0
    /\ current_player = None

ParseStart ==
    /\ fi = 1
    /\ mi = 0
    /\ current_player = None
    /\ results = <<>>
    /\ pc = "files"
    /\ error = "none"
    /\ AggregatesIdle

\* line 21-29: the next file is opened, its author slot starts empty
OpenFile ==
    /\ pc = "files"
    /\ fi <= Len(docs)
    /\ current_player' = None
    /\ mi' = 1
    /\ pc' = "messages"
    /\ UNCHANGED <<docs, fi, results, error, si, stats, puzzles, h2h_stats,
                   summary, h2h_report>>

\* lines 30-70: one message block
ProcessMessage ==
    /\ pc = "messages"
    /\ mi <= Len(docs[fi])
    /\ LET msg == docs[fi][mi]
           out == MessageOutcome(current_player, msg)
       IN  /\ current_player' = AuthorAfter(current_player, msg)
           /\ IF out.kind = "raise"
              THEN /\ pc' = "error"
                   /\ error' = out.exc.raised
                   /\ UNCHANGED <<results, mi>>
              ELSE /\ results' = IF out.kind = "append"
                                 THEN Append(results, out.rec) ELSE results
                   /\ mi' = mi + 1
                   /\ UNCHANGED <<pc, error>>
    /\ UNCHANGED <<docs, fi, si, stats, puzzles, h2h_stats, summary, h2h_report>>

\* the message loop of a file ends, the file loop moves on
EndFile ==
    /\ pc = "messages"
    /\ mi > Len(docs[fi])
    /\ fi' = fi + 1
    /\ pc' = "files"
    /\ UNCHANGED <<docs, mi, current_player, results, error, si, stats, puzzles,
                   h2h_stats, summary, h2h_report>>

\* line 72
ReturnResults ==
    /\ pc = "files"
    /\ fi > Len(docs)
    /\ pc' = "parsed"
    /\ UNCHANGED <<docs, fi, mi, current_player, results, error, si, stats,
                   puzzles, h2h_stats, summary, h2h_report>>

ParseNext == OpenFile \/ ProcessMessage \/ EndFile \/ ReturnResults

(***************************************************************************)
(* Inputs of the extractor.                                                *)
(***************************************************************************)
Filenames == <<"messages.html", "messages2.html">>

SeqsUpTo(S, n) == UNION {[1..k -> S] : k \in 0..n}

HugoLabel == <<" ", "Hugo", " ", "Ledoux", " ">>
SylvainViaLabel == <<" ", "Sylvain", " ", "Roy", " ", "via", " ", "@wordlebot", " ">>
BlankLabel == <<" ">>

MentionText(pre, kw, num, att, den) == pre \o kw \o num \o <<" ", att>> \o den

PlainMention == MentionText(<<>>, Keyword, <<"7", "9", "8">>, "3", <<"/", "6">>)
ChatText == <<"h", "i">>

DateTitle(d, m, y) == d \o <<".">> \o m \o <<".">> \o y \o <<" ", "0", "8", ":", "3", "8">>
PlainTitle == DateTitle(<<"2", "6">>, <<"0", "8">>, <<"2", "0", "2", "3">>)

\* author attribution: labels come and go, every text is a dated mention
StickyBlocks ==
    [from_name : {None, Some(HugoLabel), Some(SylvainViaLabel)},
     text : {None, Some(PlainMention)},
     title : {Some(PlainTitle)}]

InitSticky ==
    /\ docs \in [1..Len(Filenames) -> SeqsUpTo(StickyBlocks, MaxBlocks)]
    /\ ParseStart

SpecSticky == InitSticky /\ [][ParseNext]_vars

\* timestamps: every block is a mention by a known author
Titles ==
    {None, Some(<<>>), Some(<<"y", "e", "s", "t", "e", "r", "d", "a", "y">>),
     Some(<<"2", "6", ".", "0", "8", ".", "2", "3">>)}
    \cup {Some(DateTitle(d, m, y)) :
            d \in {<<"0", "0">>, <<"2", "9">>, <<"3", "1">>},
            m \in {<<"0", "2">>, <<"0", "8">>, <<"1", "3">>},
            y \in {<<"0", "0", "0", "0">>, <<"2", "0", "2", "3">>,
                   <<"2", "0", "2", "4">>}}

DateBlocks ==
    [from_name : {Some(HugoLabel)}, text : {Some(PlainMention)}, title : Titles]

InitDates ==
    /\ docs \in [1..Len(Filenames) -> SeqsUpTo(DateBlocks, 1)]
    /\ ParseStart

SpecDates == InitDates /\ [][ParseNext]_vars

\* mention texts: one block by a known author with a good timestamp
NumberRuns == SeqsUpTo({"0", "1", ","}, MaxNumLen)

MentionTexts ==
    {MentionText(pre, kw, num, att, den) :
        pre \in {<<>>, <<"o", "k", " ">>},
        kw \in {Keyword, <<"w", "o", "r", "d", "l", "e", " ">>},
        num \in NumberRuns,
        att \in {"X", "0", "1", "6", "7", "9", "x"},
        den \in {<<"/", "6">>, <<"/", "5">>}}

MentionBlocks ==
    [from_name : {Some(HugoLabel), Some(BlankLabel)},
     text : {None, Some(ChatText)} \cup {Some(t) : t \in MentionTexts},
     title : {Some(PlainTitle)}]

InitMention ==
    /\ docs \in {<<<<b>>, <<>>>> : b \in MentionBlocks}
    /\ ParseStart

SpecMention == InitMention /\ [][ParseNext]_vars

(***************************************************************************)
(* Dictionaries: a function whose domain is the set of keys present.       *)
(***************************************************************************)
EmptyDict == <<>>
Get(d, k, default) == IF k \in DOMAIN d THEN d[k] ELSE default
Put(d, k, v) == [x \in DOMAIN d \cup {k} |-> IF x = k THEN v ELSE d[x]]

RECURSIVE SumOver(_, _)
SumOver(d, keys) ==
    IF keys = {} THEN 0
    ELSE LET k == CHOOSE x \in keys : TRUE
         IN  d[k] + SumOver(d, keys \ {k})

SumValues(d) == SumOver(d, DOMAIN d)

(***************************************************************************)
(* calculate_statistics (lines 75-104).                                    *)
(***************************************************************************)
NewBucket ==
    [total |-> 0, wins |-> 0, losses |-> 0, attempts_dist |-> EmptyDict,
     total_attempts |-> 0]

\* variant: the distribution entry is set, not incremented
BucketStepDistSet(b, attempts) ==
    IF attempts = "X"
    THEN [b EXCEPT !.total = @ + 1, !.losses = @ + 1]
    ELSE LET n == DigitVal(attempts)
         IN  [b EXCEPT !.total = @ + 1,
                       !.wins = @ + 1,
                       !.attempts_dist = Put(@, n, 1),
                       !.total_attempts = @ + n]

\* variant: total_attempts is assigned, not accumulated
BucketStepAttemptsSet(b, attempts) ==
    IF attempts = "X"
    THEN [b EXCEPT !.total = @ + 1, !.losses = @ + 1]
    ELSE LET n == DigitVal(attempts)
         IN  [b EXCEPT !.total = @ + 1,
                       !.wins = @ + 1,
                       !.attempts_dist = Put(@, n, Get(@, n, 0) + 1),
                       !.total_attempts = n]

\* lines 94-102 on one bucket
BucketStep(b, attempts) ==
    IF attempts = "X"
    THEN [b EXCEPT !.total = @ + 1, !.losses = @ + 1]
    ELSE LET n == DigitVal(attempts)
         IN  [b EXCEPT !.total = @ + 1,
                       !.wins = @ + 1,
                       !.attempts_dist = Put(@, n, Get(@, n, 0) + 1),
                       !.total_attempts = @ + n]

\* lines 90-102: one record
StatsStep(st, r) ==
    LET years == Get(st, r.player, EmptyDict)
        b == Get(years, r.year, NewBucket)
    IN  Put(st, r.player, Put(years, r.year, BucketStep(b, r.attempts)))

RECURSIVE CalculateStatistics(_)
CalculateStatistics(rs) ==
    IF rs = <<>> THEN EmptyDict
    ELSE StatsStep(CalculateStatistics(SubSeq(rs, 1, Len(rs) - 1)), rs[Len(rs)])

StatsRecord ==
    /\ pc = "stats"
    /\ si <= Len(results)
    /\ stats' = StatsStep(stats, results[si])
    /\ si' = si + 1
    /\ UNCHANGED <<docs, fi, mi, current_player, results, pc, error, puzzles,
                   h2h_stats, summary, h2h_report>>

StatsReturn ==
    /\ pc = "stats"
    /\ si > Len(results)
    /\ pc' = "h2h"
    /\ UNCHANGED <<docs, fi, mi, current_player, results, error, si, stats,
                   puzzles, h2h_stats, summary, h2h_report>>

(***************************************************************************)
(* calculate_head_to_head (lines 107-142).                                 *)
(***************************************************************************)
Hugo == <<"Hugo", " ", "Ledoux">>
Sylvain == <<"Sylvain", " ", "Roy">>

FailValue == 7

AttemptsVal(attempts) == IF attempts = "X" THEN FailValue ELSE DigitVal(attempts)

\* variant: the first record of a (year, puzzle, player) triple is kept
PuzzleStepKeepsFirst(pz, r) ==
    LET yp == Get(pz, r.year, EmptyDict)
        players == Get(yp, r.puzzle_num, EmptyDict)
    IN  Put(pz, r.year,
            Put(yp, r.puzzle_num,
                Put(players, r.player,
                    Get(players, r.player, AttemptsVal(r.attempts)))))

\* lines 113-124: one record
PuzzleStep(pz, r) ==
    LET yp == Get(pz, r.year, EmptyDict)
        players == Get(yp, r.puzzle_num, EmptyDict)
    IN  Put(pz, r.year,
            Put(yp, r.puzzle_num, Put(players, r.player, AttemptsVal(r.attempts))))

RECURSIVE BuildPuzzles(_)
BuildPuzzles(rs) ==
    IF rs = <<>> THEN EmptyDict
    ELSE PuzzleStep(BuildPuzzles(SubSeq(rs, 1, Len(rs) - 1)), rs[Len(rs)])

NewCounters == [hugo_wins |-> 0, sylvain_wins |-> 0, ties |-> 0]

\* lines 135-140
Compare(h, year, hugo_attempts, sylvain_attempts) ==
    LET c == Get(h, year, NewCounters)
    IN  IF hugo_attempts < sylvain_attempts
        THEN Put(h, year, [c EXCEPT !.hugo_wins = @ + 1])
        ELSE IF sylvain_attempts < hugo_attempts
        THEN Put(h, year, [c EXCEPT !.sylvain_wins = @ + 1])
        ELSE Put(h, year, [c EXCEPT !.ties = @ + 1])

\* variant: a puzzle only one of the two played is compared too, the absent
\* one taken as failed
TallyEntryCountsSingles(h, year, players) ==
    IF Hugo \in DOMAIN players \/ Sylvain \in DOMAIN players
    THEN Compare(h, year, Get(players, Hugo, FailValue),
                 Get(players, Sylvain, FailValue))
    ELSE h

\* variant: h2h_stats[year] is read before the membership test, which
\* creates the key of every year that has a puzzle
TallyEntryTouchesYear(h, year, players) ==
    IF Hugo \in DOMAIN players /\ Sylvain \in DOMAIN players
    THEN Compare(h, year, players[Hugo], players[Sylvain])
    ELSE Put(h, year, Get(h, year, NewCounters))

\* lines 131-140: one (year, puzzle) entry; h2h_stats[year] comes to exist
\* only where a counter is incremented
TallyEntry(h, year, players) ==
    IF Hugo \in DOMAIN players /\ Sylvain \in DOMAIN players
    THEN Compare(h, year, players[Hugo], players[Sylvain])
    ELSE h

\* lines 129-140; the entries are pairs <<year, puzzle_num>>
RECURSIVE TallyEntries(_, _, _)
TallyEntries(h, pz, entries) ==
    IF entries = {} THEN h
    ELSE LET e == CHOOSE x \in entries : TRUE
         IN  TallyEntries(TallyEntry(h, e[1], pz[e[1]][e[2]]), pz, entries \ {e})

Entries(pz) == {<<y, n>> \in (DOMAIN pz) \X (UNION {DOMAIN pz[y] : y \in DOMAIN pz}) :
                  n \in DOMAIN pz[y]}

TallyPuzzles(pz) == TallyEntries(EmptyDict, pz, Entries(pz))

CalculateHeadToHead ==
    /\ pc = "h2h"
    /\ puzzles' = BuildPuzzles(results)
    /\ h2h_stats' = TallyPuzzles(BuildPuzzles(results))
    /\ pc' = "summary"
    /\ UNCHANGED <<docs, fi, mi, current_player, results, error, si, stats,
                   summary, h2h_report>>

(***************************************************************************)
(* The rates of the report.  A quotient is kept exact, as numerator and    *)
(* denominator; dividing by zero raises.                                   *)
(***************************************************************************)
Div(a, b) == IF b = 0 THEN ZeroDivisionError ELSE [num |-> a, den |-> b]
Zero == [num |-> 0, den |-> 1]

\* line 398
WinRate(b) == IF b.total > 0 THEN Div(b.wins * 100, b.total) ELSE Zero

\* line 399
AvgAttempts(b) == IF b.wins > 0 THEN Div(b.total_attempts, b.wins) ELSE Zero

\* lines 389-411
SummaryOf(st) ==
    [p \in DOMAIN st |->
        [y \in DOMAIN st[p] |->
            [win_rate |-> WinRate(st[p][y]), avg_attempts |-> AvgAttempts(st[p][y])]]]

SummaryRaises(sm) ==
    \E p \in DOMAIN sm : \E y \in DOMAIN sm[p] :
        Raised(sm[p][y].win_rate) \/ Raised(sm[p][y].avg_attempts)

PrintSummary ==
    /\ pc = "summary"
    /\ LET sm == SummaryOf(stats)
       IN  IF SummaryRaises(sm)
           THEN /\ pc' = "error"
                /\ error' = "ZeroDivisionError"
                /\ UNCHANGED summary
           ELSE /\ summary' = sm
                /\ pc' = "h2h_report"
                /\ UNCHANGED error
    /\ UNCHANGED <<docs, fi, mi, current_player, results, si, stats, puzzles,
                   h2h_stats, h2h_report>>

\* lines 431-442
H2HShares(h) ==
    [y \in DOMAIN h |->
        LET total == h[y].hugo_wins + h[y].sylvain_wins + h[y].ties
        IN  [hugo |-> Div(h[y].hugo_wins * 100, total),
             sylvain |-> Div(h[y].sylvain_wins * 100, total),
             ties |-> Div(h[y].ties * 100, total),
             total |-> total]]

SharesRaise(sh) ==
    \E y \in DOMAIN sh :
        Raised(sh[y].hugo) \/ Raised(sh[y].sylvain) \/ Raised(sh[y].ties)

PrintHeadToHead ==
    /\ pc = "h2h_report"
    /\ LET sh == H2HShares(h2h_stats)
       IN  IF SharesRaise(sh)
           THEN /\ pc' = "error"
                /\ error' = "ZeroDivisionError"
                /\ UNCHANGED h2h_report
           ELSE /\ h2h_report' = sh
                /\ pc' = "done"
                /\ UNCHANGED error
    /\ UNCHANGED <<docs, fi, mi, current_player, results, si, stats, puzzles,
                   h2h_stats, summary>>

AggNext ==
    \/ StatsRecord
    \/ StatsReturn
    \/ CalculateHeadToHead
    \/ PrintSummary
    \/ PrintHeadToHead

(***************************************************************************)
(* Inputs of the aggregators: records as the extractor builds them.        *)
(***************************************************************************)
Jane == <<"Jane", " ", "Doe">>

Record(player, num, attempts, year) ==
    [player |-> player, puzzle_num |-> num, attempts |-> attempts,
     date |-> MakeDate(year, 1, 1), year |-> year]

\* puzzle 798 posted in two different years, two puzzles posted in 2024
PuzzleDays == {<<798, 2023>>, <<798, 2024>>, <<1292, 2024>>}

AggRecords ==
    {Record(p, d[1], a, d[2]) : p \in {Hugo, Sylvain, Jane}, d \in PuzzleDays,
                                a \in {"X", "6"}}

AggStart ==
    /\ ParserIdle
    /\ pc = "stats"
    /\ error = "none"
    /\ si = 1
    /\ stats = EmptyDict
    /\ puzzles = EmptyDict
    /\ h2h_stats = EmptyDict
    /\ summary = EmptyDict
    /\ h2h_report = EmptyDict

InitAgg ==
    /\ results \in SeqsUpTo(AggRecords, MaxRecords)
    /\ AggStart

SpecAgg == InitAgg /\ [][AggNext]_vars

\* per-player buckets: two numeric attempts values and the failure marker
StatsRecords ==
    {Record(p, 798, a, y) : p \in {Hugo, Jane}, y \in {2023, 2024},
                            a \in {"X", "3", "6"}}

InitStats ==
    /\ results \in SeqsUpTo(StatsRecords, MaxRecords)
    /\ AggStart

SpecStats == InitStats /\ [][AggNext]_vars

\* the two designated participants on one puzzle, with every attempts token
\* the mention pattern lets through
InitDuel ==
    /\ \E a \in AttemptsClass, b \in AttemptsClass, y \in {2023, 2024} :
          results \in {<<Record(Hugo, 798, a, y), Record(Sylvain, 798, b, y)>>,
                       <<Record(Sylvain, 798, b, y), Record(Hugo, 798, a, y)>>}
    /\ AggStart

SpecDuel == InitDuel /\ [][AggNext]_vars

(***************************************************************************)
(* Properties.                                                             *)
(***************************************************************************)
RecordIdx == 1..Len(results)
Parsing == pc \in {"files", "messages", "parsed"}
AfterH2H == pc \in {"summary", "h2h_report", "done"}

ValidAttempts == {"X", "1", "2", "3", "4", "5", "6"}

\* C1: every record the extractor emits carries an attempts value that is
\* a digit 1..6 or the failure marker X.
C1_AttemptsOneToSixOrX ==
    \A i \in RecordIdx : results[i].attempts \in ValidAttempts

\* number of blocks of the files already read whose timestamp gives a date
TitleGivesDate(b) ==
    /\ b.title # None
    /\ DateMatch(b.title[1]) # None
    /\ LET dm == DateMatch(b.title[1])[1]
       IN  ~Raised(MakeDate(DigitsValue(dm.year), DigitsValue(dm.month),
                            DigitsValue(dm.day)))

BlocksRead(f) ==
    IF f < fi THEN Len(docs[f])
    ELSE IF f = fi /\ pc = "messages" THEN mi - 1
    ELSE 0

DatedBlocksRead ==
    {<<f, k>> \in (1..Len(docs)) \X (1..MaxBlocks) :
        k <= BlocksRead(f) /\ TitleGivesDate(docs[f][k])}

\* C2: a mention by a known author whose timestamp is missing or gives no
\* date is skipped without an error: the run never stops on it, and the
\* records are exactly those of the blocks whose timestamp gives a date.
C2_UndatedMentionSkipped ==
    /\ pc # "error"
    /\ Parsing => Len(results) = Cardinality(DatedBlocksRead)

\* the last record of player p for puzzle n in year y, 0 if there is none
LastIdx(p, y, n) ==
    LET is == {i \in RecordIdx : /\ results[i].player = p
                                 /\ results[i].year = y
                                 /\ results[i].puzzle_num = n}
    IN  IF is = {} THEN 0 ELSE CHOOSE i \in is : \A j \in is : j <= i

BothPlayed(y, n) == LastIdx(Hugo, y, n) > 0 /\ LastIdx(Sylvain, y, n) > 0

YearsSeen == {results[i].year : i \in RecordIdx}
NumsSeen == {results[i].puzzle_num : i \in RecordIdx}

\* C3: where both designated participants have a value for a puzzle, one
\* of them the failure marker and the other a number, that puzzle is
\* tallied as a win of the one with the number.
C3_FailureLosesToAnyNumber ==
    AfterH2H =>
        \A y \in YearsSeen : \A n \in NumsSeen :
            BothPlayed(y, n) =>
                LET ha == results[LastIdx(Hugo, y, n)].attempts
                    sa == results[LastIdx(Sylvain, y, n)].attempts
                    tallied == TallyEntry(EmptyDict, y, puzzles[y][n])
                IN  /\ (ha # "X" /\ sa = "X") =>
                           tallied = Put(EmptyDict, y,
                               [hugo_wins |-> 1, sylvain_wins |-> 0, ties |-> 0])
                    /\ (ha = "X" /\ sa # "X") =>
                           tallied = Put(EmptyDict, y,
                               [hugo_wins |-> 0, sylvain_wins |-> 1, ties |-> 0])

Buckets == {<<p, y>> \in (DOMAIN stats) \X YearsSeen : y \in DOMAIN stats[p]}

\* C4: after any prefix of the records, every (player, year) bucket has
\* wins + losses = total and the counts of attempts_dist add up to wins.
C4_BucketCountsAgree ==
    \A k \in Buckets :
        LET b == stats[k[1]][k[2]]
        IN  /\ b.wins + b.losses = b.total
            /\ SumValues(b.attempts_dist) = b.wins

C4_Witness ==
    /\ pc = "stats"
    /\ si <= Len(results)
    /\ \E k \in Buckets :
          LET b == stats[k[1]][k[2]]
          IN  b.losses >= 1 /\ b.wins >= 1

H2HTotal(y) ==
    LET c == Get(h2h_stats, y, NewCounters)
    IN  c.hugo_wins + c.sylvain_wins + c.ties

\* C5: per year, hugo_wins + sylvain_wins + ties is the number of distinct
\* puzzle numbers of that year for which both designated participants have
\* a record; other puzzles add to no counter.
C5_CountersCountSharedPuzzles ==
    AfterH2H =>
        \A y \in YearsSeen \cup DOMAIN h2h_stats :
            H2HTotal(y) = Cardinality({n \in NumsSeen : BothPlayed(y, n)})

C5_Witness ==
    /\ AfterH2H
    /\ \E y \in YearsSeen :
          /\ H2HTotal(y) = 1
          /\ \E n \in NumsSeen :
                /\ ~BothPlayed(y, n)
                /\ LastIdx(Hugo, y, n) > 0 \/ LastIdx(Jane, y, n) > 0

Permuted(f) == [i \in RecordIdx |-> results[f[i]]]

\* C6: calculate_statistics gives the same buckets for every permutation
\* of the record sequence.
C6_StatisticsOrderIndependent ==
    pc = "h2h" =>
        \A f \in Permutations(RecordIdx) : CalculateStatistics(Permuted(f)) = stats

C6_Witness ==
    /\ pc = "h2h"
    /\ Len(results) = MaxRecords
    /\ \E i \in RecordIdx : \E j \in RecordIdx :
          /\ results[i].player = results[j].player
          /\ results[i].year = results[j].year
          /\ results[i].attempts = "3"
          /\ results[j].attempts = "6"
    /\ \E i \in RecordIdx : results[i].attempts = "X"

\* the label of the nearest block at or before block k that carries one
NearestLabel(doc, k) ==
    LET js == {j \in 1..k : doc[j].from_name # None}
    IN  IF js = {} THEN None
        ELSE doc[CHOOSE j \in js : \A l \in js : l <= j].from_name

IsMention(b) == b.text # None /\ WordleSearch(b.text[1]) # None

RECURSIVE ExpectedPlayers(_, _)
ExpectedPlayers(doc, k) ==
    IF k = 0 THEN <<>>
    ELSE ExpectedPlayers(doc, k - 1) \o
         (IF IsMention(doc[k]) /\ NearestLabel(doc, k) # None
          THEN <<NormalizeAuthor(NearestLabel(doc, k)[1])>>
          ELSE <<>>)

RECURSIVE ExpectedPlayersUpTo(_)
ExpectedPlayersUpTo(f) ==
    IF f = 0 THEN <<>>
    ELSE ExpectedPlayersUpTo(f - 1) \o ExpectedPlayers(docs[f], BlocksRead(f))

\* C7: the player of a record is the normalized label of the nearest block,
\* at or before the record's block in the same file, that carries a label,
\* whether or not that block has a text; a mention with no label at or
\* before it in its own file gives no record.
C7_AuthorStickyWithinFile ==
    Parsing =>
        [i \in RecordIdx |-> results[i].player] = ExpectedPlayersUpTo(Len(docs))

C7_Witness ==
    /\ pc = "parsed"
    /\ Len(docs[1]) = 2
    /\ docs[1][1].from_name = Some(SylvainViaLabel) /\ docs[1][1].text = None
    /\ docs[1][2].from_name = None /\ IsMention(docs[1][2])
    /\ Len(docs[2]) = 2
    /\ docs[2][1].from_name = None /\ IsMention(docs[2][1])
    /\ docs[2][2].from_name = Some(HugoLabel) /\ IsMention(docs[2][2])
    /\ Len(results) = 2
    /\ results[1].player = Sylvain
    /\ results[2].player = Hugo

\* C8: the puzzle number of a mention is always extracted, and is >= 1.
C8_PuzzleNumPositive ==
    /\ error # IntError.raised
    /\ \A i \in RecordIdx : results[i].puzzle_num >= 1

\* C9: the rates of the report never divide by zero: a bucket without wins
\* gets mean attempts 0, and every year key of the head-to-head result has
\* hugo_wins + sylvain_wins + ties >= 1.
C9_NoZeroDenominator ==
    /\ error # ZeroDivisionError.raised
    /\ \A y \in DOMAIN h2h_stats : H2HTotal(y) >= 1
    /\ pc \in {"h2h_report", "done"} =>
          \A k \in Buckets :
              /\ stats[k[1]][k[2]].wins = 0 => summary[k[1]][k[2]].avg_attempts = Zero
              /\ summary[k[1]][k[2]].win_rate.den >= 1
    /\ pc = "done" =>
          \A y \in DOMAIN h2h_report : h2h_report[y].total >= 1

C9_Witness ==
    /\ pc = "done"
    /\ \E k \in Buckets : stats[k[1]][k[2]].wins = 0
    /\ \E y \in YearsSeen : y \notin DOMAIN h2h_stats
    /\ \E y \in YearsSeen : y \in DOMAIN h2h_report

\* the counters of year y when each shared puzzle is decided by the last
\* record of each of the two participants
LastDecides(y) ==
    LET shared == {n \in NumsSeen : BothPlayed(y, n)}
        h(n) == AttemptsVal(results[LastIdx(Hugo, y, n)].attempts)
        s(n) == AttemptsVal(results[LastIdx(Sylvain, y, n)].attempts)
    IN  [hugo_wins |-> Cardinality({n \in shared : h(n) < s(n)}),
         sylvain_wins |-> Cardinality({n \in shared : s(n) < h(n)}),
         ties |-> Cardinality({n \in shared : h(n) = s(n)})]

\* C10: with several records for one (year, puzzle, player), the
\* head-to-head counters are those the last of them gives and the puzzle
\* counts once, while the player's total of that year counts every record.
C10_LastRecordDecides ==
    AfterH2H =>
        /\ \A y \in YearsSeen : Get(h2h_stats, y, NewCounters) = LastDecides(y)
        /\ \A k \in Buckets :
              stats[k[1]][k[2]].total =
                  Cardinality({i \in RecordIdx : /\ results[i].player = k[1]
                                                 /\ results[i].year = k[2]})

C10_Witness ==
    /\ AfterH2H
    /\ Len(results) = 3
    /\ results[1].player = Hugo /\ results[2].player = Hugo
    /\ results[3].player = Sylvain
    /\ results[1].year = results[2].year /\ results[2].year = results[3].year
    /\ results[1].puzzle_num = results[2].puzzle_num
    /\ results[2].puzzle_num = results[3].puzzle_num
    /\ results[1].attempts = "6" /\ results[2].attempts = "X"
    /\ results[3].attempts = "6"
    /\ h2h_stats[results[1].year] = [hugo_wins |-> 0, sylvain_wins |-> 1, ties |-> 0]
    /\ stats[Hugo][results[1].year].total = 2

====
